---- MODULE Spec2Model ----
\* Model of src/generate_index.py: one run of the index generator is
\*   os.listdir -> suffix filter -> generate_list_items -> template -> open/write -> print
\* inside a single try/except, plus the copyCommand script the page embeds.
\* Strings are sequences of one-character strings, so that endswith, the
\* quoting of the URL and the exact command text are computed, not assumed.
\* The rendered page is a sequence of markup tokens in document order.
EXTENDS Integers, Sequences, FiniteSets, TLC

\* ------------------------------------------------------------------ bounds
\* Largest number of directory entries (index.html not counted).
MaxFiles == 4

\* -------------------------------------------------------- module constants
curl_linux == <<"c","u","r","l"," ","-","s","S","L">>
curl_win == <<"I","n","v","o","k","e","-","R","e","s","t","M","e","t","h","o","d">>
base_url == <<"h","t","t","p","s",":","/","/","e","d","o","a","r","d","o","t","o","s","i","n",".","c","o","m","/","t","o","o","l","s","/">>

\* The name the page is written under (line 176).
IndexName == <<"i","n","d","e","x",".","h","t","m","l">>

\* Names a directory entry can have in the model: one per recognized suffix,
\* and one entry the scan must reject.
DirNames ==
    { <<"a",".","s","h">>, <<"b",".","b","a","s","h">>, <<"c",".","p","y">>,
      <<"d",".","p","y","w">>, <<"e",".","p","s","1">>, <<"d",".","t","x","t">> }

\* Directory contents: duplicate-free listings of at most MaxFiles entries.
RECURSIVE Listings(_)
Listings(n) ==
    IF n = 0 THEN { <<>> }
    ELSE LET shorter == Listings(n - 1)
             full    == { l \in shorter : Len(l) = n - 1 }
         IN  shorter \cup
             { Append(p[1], p[2]) :
                 p \in { q \in full \X DirNames :
                           \A i \in 1..Len(q[1]) : q[1][i] # q[2] } }

\* ------------------------------------------------------------ string helpers
\* str.endswith(suffix) / String.prototype.endsWith(suffix)
endswith(s, suffix) ==
    /\ Len(suffix) <= Len(s)
    /\ SubSeq(s, Len(s) - Len(suffix) + 1, Len(s)) = suffix

\* str.endswith(tuple_of_suffixes)
endswith_any(s, suffixes) == \E x \in suffixes : endswith(s, x)

\* sep.join(parts) on sequences of tokens
RECURSIVE join(_, _)
join(sep, parts) ==
    IF Len(parts) = 0 THEN <<>>
    ELSE IF Len(parts) = 1 THEN parts[1]
    ELSE parts[1] \o sep \o join(sep, Tail(parts))

\* files[start:end] for 0 <= start, 0 <= end (Python clamps to the length and
\* yields the empty list when start >= end)
slice(files, start, end) ==
    LET lo == IF start > Len(files) THEN Len(files) ELSE start
        hi == IF end > Len(files) THEN Len(files) ELSE end
    IN  IF lo >= hi THEN <<>> ELSE SubSeq(files, lo + 1, hi)

min(a, b) == IF a <= b THEN a ELSE b

\* math.ceil(a / b) for a >= 0, b > 0
ceil(a, b) == IF a % b = 0 THEN a \div b ELSE (a \div b) + 1

\* ----------------------------------------------------------------- suffixes
dot_sh   == <<".","s","h">>
dot_bash == <<".","b","a","s","h">>
dot_py   == <<".","p","y">>
dot_pyw  == <<".","p","y","w">>
dot_ps1  == <<".","p","s","1">>
dot_txt  == <<".","t","x","t">>
dot_html == <<".","h","t","m","l">>

\* Variants of the tuple: one suffix more, one suffix less.
scan_suffixes_txt  == { dot_sh, dot_bash, dot_py, dot_pyw, dot_ps1, dot_txt }
scan_suffixes_nopyw == { dot_sh, dot_bash, dot_py, dot_ps1 }
scan_suffixes_html == { dot_sh, dot_bash, dot_py, dot_pyw, dot_ps1, dot_html }
\* The tuple of suffixes of the scan filter (line 57).
scan_suffixes == { dot_sh, dot_bash, dot_py, dot_pyw, dot_ps1 }

\* [file for file in listing if file.endswith((...))]
RECURSIVE scan_filter(_)
scan_filter(listing) ==
    IF listing = <<>> THEN <<>>
    ELSE (IF endswith_any(Head(listing), scan_suffixes) THEN << Head(listing) >> ELSE <<>>)
         \o scan_filter(Tail(listing))

\* ------------------------------------------------------------ list item text
TitlePrefix == <<"C","l","i","c","k"," ","t","o"," ","c","o","p","y"," ","c","o","m","m","a","n","d",":"," ">>
TitleUnsupported == <<"U","n","s","u","p","p","o","r","t","e","d"," ","f","i","l","e"," ","t","y","p","e">>
PipeBash == <<" ","|"," ","b","a","s","h">>
PipePython3 == <<" ","|"," ","p","y","t","h","o","n","3">>
PipeInvokeExpression == <<" ","|"," ","I","n","v","o","k","e","-","E","x","p","r","e","s","s","i","o","n">>
SQ == "'"
DQ == "\""

\* One <li> block of the f-string chain (lines 25-47): the button's onclick,
\* the button's title, and the anchor's href and text.
li(onclick, title, file) ==
    [tag |-> "li", onclick |-> onclick, title |-> title, href |-> file, text |-> file]

on_copyCommand(file) == [fn |-> "copyCommand", arg |-> file]
on_alert == [fn |-> "alert", arg |-> <<>>]

\* The same chain with the interpreters of the first two branches exchanged.
list_item_swapped(file) ==
    IF endswith_any(file, {dot_sh, dot_bash})
    THEN li(on_copyCommand(file),
            TitlePrefix \o curl_linux \o <<" ", SQ>> \o base_url \o file \o <<SQ>> \o PipePython3,
            file)
    ELSE IF endswith_any(file, {dot_py, dot_pyw})
    THEN li(on_copyCommand(file),
            TitlePrefix \o curl_linux \o <<" ", SQ>> \o base_url \o file \o <<SQ>> \o PipeBash,
            file)
    ELSE IF endswith(file, dot_ps1)
    THEN li(on_copyCommand(file),
            TitlePrefix \o curl_win \o <<" ", SQ>> \o base_url \o file \o <<SQ>> \o PipeInvokeExpression,
            file)
    ELSE li(on_alert, TitleUnsupported, file)

\* The conditional expression of lines 25-47, applied to one file.
list_item(file) ==
    IF endswith_any(file, {dot_sh, dot_bash})
    THEN li(on_copyCommand(file),
            TitlePrefix \o curl_linux \o <<" ", SQ>> \o base_url \o file \o <<SQ>> \o PipeBash,
            file)
    ELSE IF endswith_any(file, {dot_py, dot_pyw})
    THEN li(on_copyCommand(file),
            TitlePrefix \o curl_linux \o <<" ", SQ>> \o base_url \o file \o <<SQ>> \o PipePython3,
            file)
    ELSE IF endswith(file, dot_ps1)
    THEN li(on_copyCommand(file),
            TitlePrefix \o curl_win \o <<" ", SQ>> \o base_url \o file \o <<SQ>> \o PipeInvokeExpression,
            file)
    ELSE li(on_alert, TitleUnsupported, file)

\* ------------------------------------------------------ generate_list_items
num_columns == 3

\* num_files // num_columns in place of the ceiling.
num_per_column_floor(num_files) == num_files \div num_columns
num_per_column(num_files) == ceil(num_files, num_columns)

start_index(i, files) == i * num_per_column(Len(files))

\* An end index one past the column's share.
end_index_overlap(i, files) ==
    min((i + 1) * num_per_column(Len(files)) + 1, Len(files))
end_index(i, files) ==
    min((i + 1) * num_per_column(Len(files)), Len(files))

column_files(i, files) == slice(files, start_index(i, files), end_index(i, files))

NL == [tag |-> "nl"]

\* '\n'.join(<li block> for file in column_files)
column_items(cfiles) ==
    join(<<NL>>, [j \in 1..Len(cfiles) |-> << list_item(cfiles[j]) >>])

\* f'<ul>{column_items}</ul>'
ul(items) == << [tag |-> "ul"] >> \o items \o << [tag |-> "/ul"] >>

\* A column list that leaves out the columns that got no file.
RECURSIVE columns_skip_from(_, _)
columns_skip_from(i, files) ==
    IF i >= num_columns THEN <<>>
    ELSE (IF column_files(i, files) = <<>> THEN <<>>
          ELSE << ul(column_items(column_files(i, files))) >>)
         \o columns_skip_from(i + 1, files)
columns_skip_empty(files) == columns_skip_from(0, files)

\* The list `columns` after the loop over range(num_columns) (lines 18-51).
columns(files) ==
    [c \in 1..num_columns |-> ul(column_items(column_files(c - 1, files)))]

\* f'<div style="float:left; width:33%;">{column}</div>'
div(column) == << [tag |-> "div"] >> \o column \o << [tag |-> "/div"] >>

generate_list_items(files) ==
    LET cols == columns(files)
    IN  join(<<NL>>, [c \in 1..Len(cols) |-> div(cols[c])])

\* The page template (lines 59-174) with {list_items} substituted; the static
\* text before and after it is one token each.
html_template(items) ==
    << [tag |-> "head"] >> \o items \o << [tag |-> "script"], [tag |-> "tail"] >>

\* ------------------------------------------------------------- copyCommand
\* The command the embedded script builds (lines 146-159); NoCommand when it
\* takes the alert branch and returns.
NoCommand == <<>>
copyCommand(filename) ==
    LET baseUrl == base_url
    IN  IF endswith(filename, dot_sh) \/ endswith(filename, dot_bash)
        THEN curl_linux \o <<" ", DQ>> \o baseUrl \o filename \o <<DQ>> \o PipeBash
        ELSE IF endswith(filename, dot_py) \/ endswith(filename, dot_pyw)
        THEN curl_linux \o <<" ", DQ>> \o baseUrl \o filename \o <<DQ>> \o PipePython3
        ELSE IF endswith(filename, dot_ps1)
        THEN curl_win \o <<" ", DQ>> \o baseUrl \o filename \o <<DQ>> \o PipeInvokeExpression
        ELSE NoCommand

\* ------------------------------------------------------------------ state
VARIABLES
    pc,            \* position of the script: scan, scanned, rendered, opened, written, done, crashed
    entries,       \* the entries of scripts_dir other than index.html, in listing order
    indexFile,     \* scripts_dir/index.html on disk: [exists, content]
    files,         \* the filtered list (line 57)
    list_items,    \* the result of generate_list_items (line 58)
    html_content,  \* the rendered page (line 59)
    stdout,        \* the lines this invocation has printed
    failedAt,      \* the step whose exception reached the handler, or "none"
    indexAtStart,  \* index.html as this invocation found it
    prevOK,        \* whether the previous invocation printed the success line
    clicked,       \* the list item whose button was activated last
    clipboard      \* the text on the clipboard

vars == << pc, entries, indexFile, files, list_items, html_content, stdout,
           failedAt, indexAtStart, prevOK, clicked, clipboard >>

Absent  == [exists |-> FALSE, content |-> <<>>]
OldFile == [exists |-> TRUE, content |-> << [tag |-> "old"] >>]
NoButton == [tag |-> "none"]

SuccessLine == << "HTML file generated successfully!" >>
\* f'Error: {e}'
ErrorLine(e) == << "Error: ", e.str >>

\* Exceptions the steps of the try block raise.
ListdirErrors ==
    { [class |-> "FileNotFoundError", str |-> "[Errno 2] No such file or directory: './scripts'"],
      [class |-> "PermissionError", str |-> "[Errno 13] Permission denied: './scripts'"] }
RenderError == [class |-> "MemoryError", str |-> ""]
OpenError ==
    [class |-> "PermissionError", str |-> "[Errno 13] Permission denied: './scripts/index.html'"]
WriteError == [class |-> "OSError", str |-> "[Errno 28] No space left on device"]

\* `except OSError`, a narrower clause.
except_OSError(e) == e.class \in { "OSError", "FileNotFoundError", "PermissionError" }
\* `except Exception`: the classes the handler's clause matches.
except_Exception(e) ==
    e.class \in { "OSError", "FileNotFoundError", "PermissionError", "MemoryError" }

\* An exception raised inside the try block at step `where` (lines 180-181).
raise(e, where) ==
    /\ failedAt' = where
    /\ IF except_Exception(e)
       THEN /\ stdout' = Append(stdout, ErrorLine(e))
            /\ pc' = "done"
       ELSE /\ stdout' = stdout
            /\ pc' = "crashed"

\* The listings os.listdir can return: the entries in their order, with
\* index.html somewhere among them once it exists.
insert(seq, k, x) == SubSeq(seq, 1, k) \o << x >> \o SubSeq(seq, k + 1, Len(seq))
os_listdir ==
    IF indexFile.exists
    THEN { insert(entries, k, IndexName) : k \in 0..Len(entries) }
    ELSE { entries }

\* What a failed write can leave in the file: nothing, or a strict prefix.
partial_writes(content) ==
    { SubSeq(content, 1, n) : n \in { 0, Len(content) \div 2 } }

Init ==
    /\ pc = "scan"
    /\ entries \in Listings(MaxFiles)
    /\ indexFile \in { Absent, OldFile }
    /\ files = <<>>
    /\ list_items = <<>>
    /\ html_content = <<>>
    /\ stdout = <<>>
    /\ failedAt = "none"
    /\ indexAtStart = indexFile
    /\ prevOK = FALSE
    /\ clicked = NoButton
    /\ clipboard = NoCommand

\* A scan that truncates index.html before listing the directory.
Scan_open_first ==
    /\ pc = "scan"
    /\ \E listing \in os_listdir : files' = scan_filter(listing)
    /\ indexFile' = [exists |-> TRUE, content |-> <<>>]
    /\ pc' = "scanned"
    /\ UNCHANGED << entries, list_items, html_content, stdout, failedAt,
                    indexAtStart, prevOK, clicked, clipboard >>

\* line 57
Scan ==
    /\ pc = "scan"
    /\ \E listing \in os_listdir : files' = scan_filter(listing)
    /\ pc' = "scanned"
    /\ UNCHANGED << entries, indexFile, list_items, html_content, stdout, failedAt,
                    indexAtStart, prevOK, clicked, clipboard >>

\* line 57, os.listdir raising
ScanFail ==
    /\ pc = "scan"
    /\ \E e \in ListdirErrors : raise(e, "scan")
    /\ UNCHANGED << entries, indexFile, files, list_items, html_content,
                    indexAtStart, prevOK, clicked, clipboard >>

\* lines 58-174
Render ==
    /\ pc = "scanned"
    /\ list_items' = generate_list_items(files)
    /\ html_content' = html_template(list_items')
    /\ pc' = "rendered"
    /\ UNCHANGED << entries, indexFile, files, stdout, failedAt,
                    indexAtStart, prevOK, clicked, clipboard >>

\* lines 58-174, running out of memory
RenderFail ==
    /\ pc = "scanned"
    /\ raise(RenderError, "render")
    /\ UNCHANGED << entries, indexFile, files, list_items, html_content,
                    indexAtStart, prevOK, clicked, clipboard >>

\* line 176: open(..., 'w') creates or truncates the file
Open ==
    /\ pc = "rendered"
    /\ indexFile' = [exists |-> TRUE, content |-> <<>>]
    /\ pc' = "opened"
    /\ UNCHANGED << entries, files, list_items, html_content, stdout, failedAt,
                    indexAtStart, prevOK, clicked, clipboard >>

\* line 176, open raising
OpenFail ==
    /\ pc = "rendered"
    /\ raise(OpenError, "open")
    /\ UNCHANGED << entries, indexFile, files, list_items, html_content,
                    indexAtStart, prevOK, clicked, clipboard >>

\* line 177 and the close at the end of the with block
Write ==
    /\ pc = "opened"
    /\ indexFile' = [exists |-> TRUE, content |-> html_content]
    /\ pc' = "written"
    /\ UNCHANGED << entries, files, list_items, html_content, stdout, failedAt,
                    indexAtStart, prevOK, clicked, clipboard >>

\* line 177, the write or the flush raising
WriteFail ==
    /\ pc = "opened"
    /\ \E part \in partial_writes(html_content) :
          indexFile' = [exists |-> TRUE, content |-> part]
    /\ raise(WriteError, "write")
    /\ UNCHANGED << entries, files, list_items, html_content,
                    indexAtStart, prevOK, clicked, clipboard >>

\* line 178
PrintSuccess ==
    /\ pc = "written"
    /\ stdout' = Append(stdout, SuccessLine)
    /\ pc' = "done"
    /\ UNCHANGED << entries, indexFile, files, list_items, html_content, failedAt,
                    indexAtStart, prevOK, clicked, clipboard >>

\* The script is invoked again on the same directory: a new process.
Rerun ==
    /\ pc = "done"
    /\ pc' = "scan"
    /\ files' = <<>>
    /\ list_items' = <<>>
    /\ html_content' = <<>>
    /\ stdout' = <<>>
    /\ failedAt' = "none"
    /\ indexAtStart' = indexFile
    /\ prevOK' = (stdout = << SuccessLine >>)
    /\ clicked' = NoButton
    /\ clipboard' = NoCommand
    /\ UNCHANGED << entries, indexFile >>

\* A button of the page on disk is activated: its onclick runs.
Click(i) ==
    /\ pc = "done"
    /\ indexFile.exists
    /\ i \in 1..Len(indexFile.content)
    /\ indexFile.content[i].tag = "li"
    /\ clicked' = indexFile.content[i]
    /\ clipboard' =
         IF /\ indexFile.content[i].onclick.fn = "copyCommand"
            /\ copyCommand(indexFile.content[i].onclick.arg) # NoCommand
         THEN copyCommand(indexFile.content[i].onclick.arg)
         ELSE clipboard
    /\ UNCHANGED << pc, entries, indexFile, files, list_items, html_content, stdout,
                    failedAt, indexAtStart, prevOK >>

Next ==
    \/ Scan
    \/ ScanFail
    \/ Render
    \/ RenderFail
    \/ Open
    \/ OpenFail
    \/ Write
    \/ WriteFail
    \/ PrintSuccess
    \/ Rerun
    \/ \E i \in DOMAIN indexFile.content : Click(i)

Spec == Init /\ [][Next]_vars

\* ============================================================== properties
\* Reading a rendered page back: its list items and its column containers.
Range(seq) == { seq[i] : i \in DOMAIN seq }
IsLi(t) == t.tag = "li"
PageItems(page) == SelectSeq(page, IsLi)
DivStarts(page) == { i \in DOMAIN page : page[i].tag = "div" }
NthDiv(page, n) ==
    CHOOSE i \in DivStarts(page) : Cardinality({ j \in DivStarts(page) : j < i }) = n - 1
DivEnd(page, o) ==
    CHOOSE c \in (o + 1)..Len(page) :
        /\ page[c].tag = "/div"
        /\ \A j \in (o + 1)..(c - 1) : page[j].tag # "/div"
\* The tokens between the n-th <div> and its </div>.
DivBody(page, n) ==
    LET o == NthDiv(page, n) IN SubSeq(page, o + 1, DivEnd(page, o) - 1)
\* The files listed in the n-th column, top to bottom.
ColumnOf(page, n) ==
    LET items == PageItems(DivBody(page, n)) IN [j \in DOMAIN items |-> items[j].href]
PageColumns(page) == [n \in 1..Cardinality(DivStarts(page)) |-> ColumnOf(page, n)]
RECURSIVE Flatten(_)
Flatten(seqs) == IF seqs = <<>> THEN <<>> ELSE Head(seqs) \o Flatten(Tail(seqs))
CountTag(page, tag) == Cardinality({ i \in DOMAIN page : page[i].tag = tag })

\* The page has been rendered in this invocation.
Rendered == html_content # <<>>

\* C1: every file handed to generate_list_items is rendered as a list item in
\* exactly one column, exactly once: none is dropped, none is rendered twice,
\* and the number of list items over all columns is the number of files.
C1_EveryFileInExactlyOneColumn ==
    Rendered =>
        LET cols == PageColumns(list_items)
        IN  /\ \A f \in Range(files) :
                 Cardinality({ p \in (DOMAIN cols) \X (1..Len(files)) :
                                 /\ p[2] \in DOMAIN cols[p[1]]
                                 /\ cols[p[1]][p[2]] = f }) = 1
            /\ Len(PageItems(list_items)) = Len(files)
            /\ Len(Flatten(cols)) = Len(files)

C1_Witness ==
    /\ Rendered
    /\ Len(files) = 4

\* The column size and the index range of column i, from the number of files.
C2_K == CHOOSE k \in 0..Len(files) : 3 * k >= Len(files) /\ 3 * (k - 1) < Len(files)
C2_Lo(i) == i * C2_K
C2_Hi(i) == IF (i + 1) * C2_K <= Len(files) THEN (i + 1) * C2_K ELSE Len(files)
C2_Expected(i) ==
    [j \in 1..(IF C2_Hi(i) > C2_Lo(i) THEN C2_Hi(i) - C2_Lo(i) ELSE 0) |-> files[C2_Lo(i) + j]]
\* C2: with k = ceil(F/3), column i (from 0) holds exactly the files at indices
\* [i*k, min((i+1)*k, F)) in list order; a column is of size k unless it is one
\* of the last ones, which are smaller or empty; the sizes add up to F and the
\* columns concatenated give the filtered list back.
C2_ColumnRanges ==
    Rendered =>
        LET cols == PageColumns(list_items)
        IN  /\ Len(cols) = 3
            /\ \A i \in 0..2 : cols[i + 1] = C2_Expected(i)
            /\ \A i \in 1..3 : Len(cols[i]) <= C2_K
            /\ \A i \in 1..3 : \A j \in 1..3 :
                 (i < j /\ Len(cols[i]) < C2_K) => cols[j] = <<>>
            /\ Len(cols[1]) + Len(cols[2]) + Len(cols[3]) = Len(files)
            /\ Flatten(cols) = files

C2_Witness ==
    /\ Rendered
    /\ Len(files) = 4
    /\ Len(PageColumns(list_items)[1]) = 2
    /\ Len(PageColumns(list_items)[2]) = 2
    /\ PageColumns(list_items)[3] = <<>>

\* The three kinds of script, their suffixes and their install commands.
C3_Kinds == { "shell", "python", "powershell" }
C3_Suffixes(kind) ==
    CASE kind = "shell" -> { <<".","s","h">>, <<".","b","a","s","h">> }
      [] kind = "python" -> { <<".","p","y">>, <<".","p","y","w">> }
      [] kind = "powershell" -> { <<".","p","s","1">> }
C3_KindsOf(file) == { k \in C3_Kinds : \E x \in C3_Suffixes(k) : endswith(file, x) }
C3_Command(kind, file) ==
    CASE kind = "shell" ->
           <<"c","u","r","l"," ","-","s","S","L"," ","'">> \o base_url \o file
              \o <<"'"," ","|"," ","b","a","s","h">>
      [] kind = "python" ->
           <<"c","u","r","l"," ","-","s","S","L"," ","'">> \o base_url \o file
              \o <<"'"," ","|"," ","p","y","t","h","o","n","3">>
      [] kind = "powershell" ->
           <<"I","n","v","o","k","e","-","R","e","s","t","M","e","t","h","o","d"," ","'">>
              \o base_url \o file
              \o <<"'"," ","|"," ","I","n","v","o","k","e","-","E","x","p","r","e","s","s","i","o","n">>
\* The command a list item shows: its title without the leading label.
ShownCommand(item) == SubSeq(item.title, Len(TitlePrefix) + 1, Len(item.title))
\* C3: the install command shown for a file is fixed by its suffix:
\* curl -sSL '<base_url><file>' | bash for .sh/.bash,
\* curl -sSL '<base_url><file>' | python3 for .py/.pyw,
\* Invoke-RestMethod '<base_url><file>' | Invoke-Expression for .ps1,
\* and every scanned file is of exactly one of the three kinds.
C3_InstallCommandBySuffix ==
    Rendered =>
        /\ \A f \in Range(files) : Cardinality(C3_KindsOf(f)) = 1
        /\ \A item \in Range(PageItems(html_content)) :
             /\ item.href \in Range(files)
             /\ SubSeq(item.title, 1, Len(TitlePrefix)) = TitlePrefix
             /\ \A k \in C3_KindsOf(item.href) : ShownCommand(item) = C3_Command(k, item.href)

C3_Witness ==
    /\ Rendered
    /\ \A k \in C3_Kinds : \E item \in Range(PageItems(html_content)) : k \in C3_KindsOf(item.href)
    /\ \E item \in Range(PageItems(html_content)) : endswith(item.href, <<".","p","y","w">>)

\* The recognized names, and every listing os.listdir may return.
C4_Recognized(name) ==
    \E x \in { <<".","s","h">>, <<".","b","a","s","h">>, <<".","p","y">>,
               <<".","p","y","w">>, <<".","p","s","1">> } : endswith(name, x)
C4_Listings ==
    { entries } \cup { insert(entries, k, IndexName) : k \in 0..Len(entries) }
Scanned == pc # "scan" /\ failedAt # "scan"
\* C4: the scan result is exactly the entries of the listing whose name ends
\* with .sh, .bash, .py, .pyw or .ps1, in listing order; an entry with another
\* suffix is not in the scan result and is not an item of the page.
C4_ScanIsRecognizedSubsequence ==
    Scanned =>
        /\ \A listing \in C4_Listings : files = SelectSeq(listing, C4_Recognized)
        /\ \A page \in { html_content, indexFile.content } :
             \A item \in Range(PageItems(page)) :
                /\ C4_Recognized(item.href)
                /\ C4_Recognized(item.text)
                /\ item.onclick.fn = "copyCommand" => C4_Recognized(item.onclick.arg)

C4_Witness ==
    /\ pc = "done"
    /\ stdout = << SuccessLine >>
    /\ Len(entries) = 4
    /\ entries[2] = <<"d",".","t","x","t">>
    /\ Len(files) = 3
    /\ indexAtStart.exists

\* C5: a run that follows a successful run on the same directory and succeeds
\* too leaves index.html with the same content; the index.html of the first
\* run is not in the second run's scan result.
C5_SecondRunSamePage ==
    prevOK =>
        /\ Scanned => \A i \in DOMAIN files : files[i] # IndexName
        /\ (pc = "done" /\ stdout = << SuccessLine >>) =>
              /\ indexFile = indexAtStart
              /\ indexFile.content = html_content

C5_Witness ==
    /\ prevOK
    /\ pc = "done"
    /\ stdout = << SuccessLine >>
    /\ Len(files) = 3

C6_IsErrorLine(line) == Len(line) = 2 /\ line[1] = "Error: "
\* C6: whatever step fails, the run ends normally with exactly one line
\* printed: the success line when nothing failed, an Error: line when a step
\* failed, never both, never none; nothing is printed before the end, and no
\* step of the run follows a failure.
C6_OneStatusLine ==
    /\ pc # "crashed"
    /\ Len(stdout) <= 1
    /\ pc = "done" <=> Len(stdout) = 1
    /\ pc = "done" =>
          /\ (failedAt = "none") <=> (stdout[1] = SuccessLine)
          /\ (failedAt # "none") <=> C6_IsErrorLine(stdout[1])
          /\ ~ (stdout[1] = SuccessLine /\ C6_IsErrorLine(stdout[1]))
    /\ failedAt # "none" => pc = "done"

C6_Witness ==
    /\ pc = "done"
    /\ failedAt = "render"
    /\ Len(stdout) = 1
    /\ prevOK

\* C7: the command a button copies to the clipboard is the command its title
\* shows.
C7_ClipboardIsShownCommand ==
    clicked # NoButton => clipboard = ShownCommand(clicked)

\* A column body that is one <ul> ... </ul> and nothing else.
C8_UlIsWhole(body) ==
    /\ Len(body) >= 2
    /\ body[1].tag = "ul"
    /\ body[Len(body)].tag = "/ul"
    /\ CountTag(body, "ul") = 1
    /\ CountTag(body, "/ul") = 1
\* C8: the page always has exactly three column containers, each with one
\* <ul>: all three empty and no <li> for an empty scan result, and the
\* trailing ones empty, not missing, when there are fewer files than columns.
C8_ThreeColumns ==
    Rendered =>
        /\ CountTag(html_content, "div") = 3
        /\ CountTag(html_content, "/div") = 3
        /\ CountTag(html_content, "ul") = 3
        /\ \A n \in 1..3 : C8_UlIsWhole(DivBody(html_content, n))
        /\ files = <<>> =>
              /\ CountTag(html_content, "li") = 0
              /\ \A n \in 1..3 : Len(DivBody(html_content, n)) = 2
        /\ \A n \in 1..3 : n > Len(files) => Len(DivBody(html_content, n)) = 2

C8_Witness ==
    /\ Rendered
    /\ Len(files) = 1
    /\ CountTag(html_content, "li") = 1

\* C9: no file that reaches generate_list_items is rendered through the
\* "Unsupported file type" branch.
C9_NoUnsupportedItem ==
    \A page \in { list_items, html_content, indexFile.content } :
        \A item \in Range(PageItems(page)) :
            /\ item.onclick.fn # "alert"
            /\ item.title # TitleUnsupported

C9_Witness ==
    /\ pc = "written"
    /\ Len(files) = 4
    /\ Len(entries) = 4
    /\ \E i \in DOMAIN files : endswith(files[i], <<".","b","a","s","h">>)

\* C10: index.html is touched only after the scan and the rendering are done,
\* so a failed scan or rendering leaves it as it was; the success line is
\* printed only once the whole page is in the file.
C10_StepOrder ==
    /\ pc \in { "scan", "scanned", "rendered" } => indexFile = indexAtStart
    /\ failedAt \in { "scan", "render" } => indexFile = indexAtStart
    /\ pc \in { "scan", "scanned" } => (list_items = <<>> /\ html_content = <<>>)
    /\ pc = "scan" => files = <<>>
    /\ pc \in { "opened", "written" } => Rendered
    /\ (\E i \in DOMAIN stdout : stdout[i] = SuccessLine) =>
          /\ pc = "done"
          /\ Rendered
          /\ indexFile = [exists |-> TRUE, content |-> html_content]

C10_Witness ==
    /\ pc = "done"
    /\ failedAt = "render"
    /\ indexAtStart = OldFile
    /\ indexFile = OldFile
    /\ files # <<>>

====
